---- MODULE Spec2Model ----
(***************************************************************************)
(* The transaction core of ethereum/prague/transactions.py: the five       *)
(* transaction variants, the typed-envelope codec, the intrinsic gas       *)
(* calculator with the EIP-7623 calldata floor, and sender recovery.       *)
(*                                                                         *)
(* Representation.                                                         *)
(*   Bytes         a sequence of integers 0..255                           *)
(*   U256, U64     wide unsigned integers (nonce, r, s) are kept as their  *)
(*                 canonical big-endian byte string (no leading zero       *)
(*                 byte, <<>> is 0), which is also their RLP payload       *)
(*   Uint          gas, prices, value, chain ids, v and y_parity are plain *)
(*                 integers; the inputs keep them below 2^31               *)
(*   a record      a transaction is a record whose field "type" is the     *)
(*                 name of its class                                       *)
(*   an outcome    [kind |-> "return", value |-> ...] or                   *)
(*                 [kind |-> "raise", exc |-> ..., arg |-> ...]            *)
(*                                                                         *)
(* State.                                                                  *)
(*   tx, chain_id  the transaction and the executing chain of the caller   *)
(*   op            the operation that ran last                             *)
(*   result        its outcome                                             *)
(*   calls         the arguments of the calls of secp256k1_recover that    *)
(*                 it made                                                 *)
(*   asked         the arguments secp256k1_recover has been called with    *)
(*                 so far                                                  *)
(*   at_infinity   those of them for which the point recovered is the      *)
(*                 point at infinity                                       *)
(*   prev          how tx or chain_id was derived from an earlier one,     *)
(*                 and what the operation gave then                        *)
(*   wire          the encoded transaction of the codec                    *)
(***************************************************************************)
EXTENDS Integers, Sequences, FiniteSets, TLC

VARIABLES tx, chain_id, op, result, prev, wire, calls, asked, at_infinity

vars == <<tx, chain_id, op, result, prev, wire, calls, asked, at_infinity>>

(***************************************************************************)
(* Outcomes of a call.                                                     *)
(***************************************************************************)
Return(v) == [kind |-> "return", value |-> v]

Raise(e, a) == [kind |-> "raise", exc |-> e, arg |-> a]

None == [kind |-> "none"]

(***************************************************************************)
(* Byte strings and wide integers.                                         *)
(***************************************************************************)
\* n copies of byte b.
Fill(b, n) == SubSeq([i \in 1..n |-> b], 1, n)

Max(a, b) == IF a >= b THEN a ELSE b

\* Leading zero bytes removed: the canonical form of a wide integer.
Strip(b) ==
    IF \A i \in 1..Len(b) : b[i] = 0 THEN <<>>
    ELSE SubSeq(b, CHOOSE i \in 1..Len(b) :
                       b[i] # 0 /\ \A j \in 1..(i - 1) : b[j] = 0,
                Len(b))

\* a < b on canonical big-endian byte strings.
BigLess(a, b) ==
    \/ Len(a) < Len(b)
    \/ /\ Len(a) = Len(b)
       /\ \E i \in 1..Len(a) :
            /\ a[i] < b[i]
            /\ \A j \in 1..(i - 1) : a[j] = b[j]

BigLeq(a, b) == a = b \/ BigLess(a, b)

\* a // 2 (the floor division of U256 by U256(2)).
BigHalf(a) ==
    Strip(SubSeq([i \in 1..Len(a) |->
                    ((IF i = 1 THEN 0 ELSE a[i - 1] % 2) * 256 + a[i]) \div 2],
                 1, Len(a)))

\* The bytes of a run of digits above those of the run after it; the
\* carry or borrow that leaves is that of the upper run.
join_runs(upper, lower) ==
    [bytes |-> upper.bytes \o lower.bytes, out |-> upper.out]

\* a - b for b <= a: schoolbook subtraction with borrow, of bytes i..j of
\* two strings of one length.  The lower half of the run is subtracted
\* first and hands its borrow to the upper half.
RECURSIVE SubDigits(_, _, _, _, _)
SubDigits(a, b, i, j, borrow) ==
    IF i > j THEN [bytes |-> <<>>, out |-> borrow]
    ELSE IF i = j
    THEN IF a[i] - b[i] - borrow < 0
         THEN [bytes |-> <<a[i] - b[i] - borrow + 256>>, out |-> 1]
         ELSE [bytes |-> <<a[i] - b[i] - borrow>>, out |-> 0]
    ELSE LET mid == (i + j) \div 2
             lower == SubDigits(a, b, mid + 1, j, borrow)
         IN  IF lower.out = 1
             THEN join_runs(SubDigits(a, b, i, mid, 1), lower)
             ELSE join_runs(SubDigits(a, b, i, mid, 0), lower)

BigSub(a, b) ==
    Strip(SubDigits(a, Fill(0, Len(a) - Len(b)) \o b, 1, Len(a), 0).bytes)

\* The canonical big-endian bytes of a small non-negative integer.
RECURSIVE IntToBig(_)
IntToBig(n) == IF n = 0 THEN <<>> ELSE Append(IntToBig(n \div 256), n % 256)

RECURSIVE BigToInt(_)
BigToInt(b) ==
    IF b = <<>> THEN 0 ELSE BigToInt(SubSeq(b, 1, Len(b) - 1)) * 256 + b[Len(b)]

(***************************************************************************)
(* Constants.                                                              *)
(***************************************************************************)
TX_BASE_COST == 21000
FLOOR_CALLDATA_COST == 10
STANDARD_CALLDATA_TOKEN_COST == 4
TX_CREATE_COST == 32000
TX_ACCESS_LIST_ADDRESS_COST == 2400
TX_ACCESS_LIST_STORAGE_KEY_COST == 1900

\* ethereum.prague.vm.interpreter
MAX_CODE_SIZE == 24576
\* ethereum.prague.vm.eoa_delegation
PER_EMPTY_ACCOUNT_COST == 25000
\* ethereum.prague.vm.gas
GAS_INIT_CODE_WORD_COST == 2

\* U64.MAX_VALUE = 2^64 - 1
U64_MAX_VALUE == Fill(255, 8)

\* The order of the secp256k1 group,
\* 0xFFFFFFFFFFFFFFFFFFFFFFFFFFFFFFFEBAAEDCE6AF48A03BBFD25E8CD0364141.
SECP256K1N ==
    <<255, 255, 255, 255, 255, 255, 255, 255,
      255, 255, 255, 255, 255, 255, 255, 254,
      186, 174, 220, 230, 175, 72, 160, 59,
      191, 210, 94, 140, 208, 54, 65, 65>>

Bytes0 == <<>>

(***************************************************************************)
(* The transaction variants.                                               *)
(***************************************************************************)
Access(account, slots) == [account |-> account, slots |-> slots]

Authorization(cid, address, nonce, y_parity, r, s) ==
    [chain_id |-> cid, address |-> address, nonce |-> nonce,
     y_parity |-> y_parity, r |-> r, s |-> s]

LegacyTransaction(nonce, gas_price, gas, to, value, data, v, r, s) ==
    [type |-> "LegacyTransaction", nonce |-> nonce, gas_price |-> gas_price,
     gas |-> gas, to |-> to, value |-> value, data |-> data,
     v |-> v, r |-> r, s |-> s]

AccessListTransaction(cid, nonce, gas_price, gas, to, value, data, access_list, y_parity, r, s) ==
    [type |-> "AccessListTransaction", chain_id |-> cid, nonce |-> nonce,
     gas_price |-> gas_price, gas |-> gas, to |-> to, value |-> value,
     data |-> data, access_list |-> access_list,
     y_parity |-> y_parity, r |-> r, s |-> s]

FeeMarketTransaction(cid, nonce, max_priority_fee_per_gas, max_fee_per_gas, gas, to, value, data, access_list, y_parity, r, s) ==
    [type |-> "FeeMarketTransaction", chain_id |-> cid, nonce |-> nonce,
     max_priority_fee_per_gas |-> max_priority_fee_per_gas,
     max_fee_per_gas |-> max_fee_per_gas, gas |-> gas, to |-> to,
     value |-> value, data |-> data, access_list |-> access_list,
     y_parity |-> y_parity, r |-> r, s |-> s]

BlobTransaction(cid, nonce, max_priority_fee_per_gas, max_fee_per_gas, gas, to, value, data, access_list, max_fee_per_blob_gas, blob_versioned_hashes, y_parity, r, s) ==
    [type |-> "BlobTransaction", chain_id |-> cid, nonce |-> nonce,
     max_priority_fee_per_gas |-> max_priority_fee_per_gas,
     max_fee_per_gas |-> max_fee_per_gas, gas |-> gas, to |-> to,
     value |-> value, data |-> data, access_list |-> access_list,
     max_fee_per_blob_gas |-> max_fee_per_blob_gas,
     blob_versioned_hashes |-> blob_versioned_hashes,
     y_parity |-> y_parity, r |-> r, s |-> s]

SetCodeTransaction(cid, nonce, max_priority_fee_per_gas, max_fee_per_gas, gas, to, value, data, access_list, authorizations, y_parity, r, s) ==
    [type |-> "SetCodeTransaction", chain_id |-> cid, nonce |-> nonce,
     max_priority_fee_per_gas |-> max_priority_fee_per_gas,
     max_fee_per_gas |-> max_fee_per_gas, gas |-> gas, to |-> to,
     value |-> value, data |-> data, access_list |-> access_list,
     authorizations |-> authorizations,
     y_parity |-> y_parity, r |-> r, s |-> s]

\* isinstance(tx, (AccessListTransaction, FeeMarketTransaction,
\*                 BlobTransaction, SetCodeTransaction))
HasAccessList(t) ==
    t.type \in {"AccessListTransaction", "FeeMarketTransaction",
                "BlobTransaction", "SetCodeTransaction"}

(***************************************************************************)
(* The intrinsic gas calculator.                                           *)
(***************************************************************************)
ceil32(value) ==
    LET remainder == value % 32
    IN  IF remainder = 0 THEN value ELSE value + 32 - remainder

init_code_cost(init_code_length) ==
    (GAS_INIT_CODE_WORD_COST * ceil32(init_code_length)) \div 32

\* The loop "for byte in tx.data: if byte == 0: zero_bytes += 1".
zero_bytes(data) == Cardinality({i \in DOMAIN data : data[i] = 0})

\* Mutant: an entry listed twice is billed once.
access_list_cost_dedup(access_list) ==
    LET entries == {access_list[i] : i \in DOMAIN access_list}
        RECURSIVE total(_)
        total(S) ==
            IF S = {} THEN 0
            ELSE LET e == CHOOSE x \in S : TRUE
                 IN  total(S \ {e}) + TX_ACCESS_LIST_ADDRESS_COST
                     + Len(e.slots) * TX_ACCESS_LIST_STORAGE_KEY_COST
    IN  total(entries)

\* Mutant: the address cost is added once for the list, not once per entry.
RECURSIVE access_list_cost_once(_)
access_list_cost_once(access_list) ==
    IF access_list = <<>> THEN 0
    ELSE access_list_cost_once(Tail(access_list))
         + (IF Len(access_list) = 1 THEN TX_ACCESS_LIST_ADDRESS_COST ELSE 0)
         + Len(Head(access_list).slots) * TX_ACCESS_LIST_STORAGE_KEY_COST

\* The loop "for access in tx.access_list: access_list_cost += ...".
RECURSIVE access_list_cost(_)
access_list_cost(access_list) ==
    IF access_list = <<>> THEN 0
    ELSE access_list_cost(Tail(access_list))
         + TX_ACCESS_LIST_ADDRESS_COST
         + Len(Head(access_list).slots) * TX_ACCESS_LIST_STORAGE_KEY_COST

\* Mutant: zero bytes carry no token.
tokens_in_calldata_zero_free(data) == (Len(data) - zero_bytes(data)) * 4

tokens_in_calldata(data) ==
    zero_bytes(data) + (Len(data) - zero_bytes(data)) * 4

calculate_intrinsic_cost(t) ==
    LET calldata_floor_gas_cost ==
            tokens_in_calldata(t.data) * FLOOR_CALLDATA_COST + TX_BASE_COST
        data_cost == tokens_in_calldata(t.data) * STANDARD_CALLDATA_TOKEN_COST
        create_cost ==
            IF t.to = Bytes0
            THEN TX_CREATE_COST + init_code_cost(Len(t.data))
            ELSE 0
        al_cost ==
            IF HasAccessList(t) THEN access_list_cost(t.access_list) ELSE 0
        auth_cost ==
            IF t.type = "SetCodeTransaction"
            THEN PER_EMPTY_ACCOUNT_COST * Len(t.authorizations)
            ELSE 0
    IN  <<TX_BASE_COST + data_cost + create_cost + al_cost + auth_cost,
          calldata_floor_gas_cost>>

\* Mutant: the nonce check is off by one and admits 2^64 - 1.
validate_transaction_nonce_leq(t) ==
    LET cost == calculate_intrinsic_cost(t)
    IN  IF Max(cost[1], cost[2]) > t.gas
        THEN Raise("InvalidTransaction", "Insufficient gas")
        ELSE IF ~BigLeq(t.nonce, U64_MAX_VALUE)
        THEN Raise("InvalidTransaction", "Nonce too high")
        ELSE IF t.to = Bytes0 /\ Len(t.data) > 2 * MAX_CODE_SIZE
        THEN Raise("InvalidTransaction", "Code size too large")
        ELSE Return(cost)

validate_transaction(t) ==
    LET cost == calculate_intrinsic_cost(t)
    IN  IF Max(cost[1], cost[2]) > t.gas
        THEN Raise("InvalidTransaction", "Insufficient gas")
        ELSE IF ~BigLess(t.nonce, U64_MAX_VALUE)
        THEN Raise("InvalidTransaction", "Nonce too high")
        ELSE IF t.to = Bytes0 /\ Len(t.data) > 2 * MAX_CODE_SIZE
        THEN Raise("InvalidTransaction", "Code size too large")
        ELSE Return(cost)

(***************************************************************************)
(* The RLP collaborator (ethereum_rlp), encoding side.                     *)
(***************************************************************************)
\* The length prefix of a payload of n bytes: offset + n below 56 bytes,
\* otherwise offset + 55 + the width of n, followed by n big-endian.
rlp_prefix(offset, n) ==
    IF n < 56 THEN <<offset + n>>
    ELSE <<offset + 55 + Len(IntToBig(n))>> \o IntToBig(n)

encode_bytes(raw_bytes) ==
    IF Len(raw_bytes) = 1 /\ raw_bytes[1] < 128 THEN raw_bytes
    ELSE rlp_prefix(128, Len(raw_bytes)) \o raw_bytes

\* The concatenation of a sequence of encodings.
RECURSIVE join_encodings(_)
join_encodings(encodings) ==
    IF encodings = <<>> THEN <<>>
    ELSE Head(encodings) \o join_encodings(Tail(encodings))

encode_sequence(encodings) ==
    LET joined_encodings == join_encodings(encodings)
    IN  rlp_prefix(192, Len(joined_encodings)) \o joined_encodings

\* An unsigned integer encodes as its big-endian bytes without leading zeros.
encode_uint(n) == encode_bytes(IntToBig(n))

encode_bytes_tuple(items) ==
    encode_sequence([i \in 1..Len(items) |-> encode_bytes(items[i])])

encode_access(a) ==
    encode_sequence(<<encode_bytes(a.account), encode_bytes_tuple(a.slots)>>)

encode_access_list(access_list) ==
    encode_sequence([i \in 1..Len(access_list) |->
                        encode_access(access_list[i])])

encode_authorization(a) ==
    encode_sequence(<<encode_uint(a.chain_id), encode_bytes(a.address),
                      encode_uint(a.nonce), encode_uint(a.y_parity),
                      encode_bytes(a.r), encode_bytes(a.s)>>)

encode_authorizations(authorizations) ==
    encode_sequence([i \in 1..Len(authorizations) |->
                        encode_authorization(authorizations[i])])

\* The fields of each class in declaration order, with the type of each.
\* Types ending in "w" are the wide integers kept as big-endian bytes.
Fields(cls) ==
    CASE cls = "LegacyTransaction" ->
           <<<<"nonce", "U256w">>, <<"gas_price", "Uint">>, <<"gas", "Uint">>,
             <<"to", "To">>, <<"value", "U256">>, <<"data", "Bytes">>,
             <<"v", "U256">>, <<"r", "U256w">>, <<"s", "U256w">>>>
      [] cls = "AccessListTransaction" ->
           <<<<"chain_id", "U64">>, <<"nonce", "U256w">>,
             <<"gas_price", "Uint">>, <<"gas", "Uint">>, <<"to", "To">>,
             <<"value", "U256">>, <<"data", "Bytes">>,
             <<"access_list", "AccessList">>, <<"y_parity", "U256">>,
             <<"r", "U256w">>, <<"s", "U256w">>>>
      [] cls = "FeeMarketTransaction" ->
           <<<<"chain_id", "U64">>, <<"nonce", "U256w">>,
             <<"max_priority_fee_per_gas", "Uint">>,
             <<"max_fee_per_gas", "Uint">>, <<"gas", "Uint">>, <<"to", "To">>,
             <<"value", "U256">>, <<"data", "Bytes">>,
             <<"access_list", "AccessList">>, <<"y_parity", "U256">>,
             <<"r", "U256w">>, <<"s", "U256w">>>>
      [] cls = "BlobTransaction" ->
           <<<<"chain_id", "U64">>, <<"nonce", "U256w">>,
             <<"max_priority_fee_per_gas", "Uint">>,
             <<"max_fee_per_gas", "Uint">>, <<"gas", "Uint">>,
             <<"to", "Address">>, <<"value", "U256">>, <<"data", "Bytes">>,
             <<"access_list", "AccessList">>,
             <<"max_fee_per_blob_gas", "U256">>,
             <<"blob_versioned_hashes", "Hashes">>, <<"y_parity", "U256">>,
             <<"r", "U256w">>, <<"s", "U256w">>>>
      [] cls = "SetCodeTransaction" ->
           <<<<"chain_id", "U64">>, <<"nonce", "U64w">>,
             <<"max_priority_fee_per_gas", "Uint">>,
             <<"max_fee_per_gas", "Uint">>, <<"gas", "Uint">>,
             <<"to", "Address">>, <<"value", "U256">>, <<"data", "Bytes">>,
             <<"access_list", "AccessList">>,
             <<"authorizations", "Authorizations">>, <<"y_parity", "U256">>,
             <<"r", "U256w">>, <<"s", "U256w">>>>

encode_field(type, v) ==
    CASE type \in {"Uint", "U64", "U256"} -> encode_uint(v)
      [] type \in {"U64w", "U256w", "To", "Address", "Bytes"} -> encode_bytes(v)
      [] type = "AccessList" -> encode_access_list(v)
      [] type = "Hashes" -> encode_bytes_tuple(v)
      [] type = "Authorizations" -> encode_authorizations(v)

\* rlp.encode of a transaction record: the list of its fields in
\* declaration order.
rlp_encode(t) ==
    LET fields == Fields(t.type)
    IN  encode_sequence([i \in 1..Len(fields) |->
                            encode_field(fields[i][2], t[fields[i][1]])])

(***************************************************************************)
(* The RLP collaborator, decoding side.  A decoded item is a byte string   *)
(* [k |-> "b", v |-> bytes] or a list [k |-> "l", v |-> items].            *)
(***************************************************************************)
NoItem == [ok |-> FALSE]

RECURSIVE decode_item(_, _, _)
RECURSIVE decode_joined(_, _, _)

\* The item that starts at index p of e and ends at or before index lim:
\* [ok, item, next], next being the index after it.  Non-canonical forms
\* (a single byte below 0x80 behind a prefix, a long form for a length
\* below 56, a length with a leading zero) are refused.
decode_item(e, p, lim) ==
    IF p > lim THEN NoItem
    ELSE LET b0 == e[p]
             long == b0 \in 184..191 \/ b0 >= 248
             width == IF b0 >= 248 THEN b0 - 247 ELSE b0 - 183
             kind == IF b0 >= 192 THEN "l" ELSE "b"
         IN  IF b0 < 128
             THEN [ok |-> TRUE, item |-> [k |-> "b", v |-> <<b0>>],
                   next |-> p + 1]
             ELSE IF long /\ (width > 3 \/ p + width > lim)
             THEN NoItem
             ELSE IF long /\ e[p + 1] = 0
             THEN NoItem
             ELSE
               LET n == IF long THEN BigToInt(SubSeq(e, p + 1, p + width))
                        ELSE IF b0 >= 192 THEN b0 - 192 ELSE b0 - 128
                   first == IF long THEN p + width + 1 ELSE p + 1
                   last == first + n - 1
               IN  IF long /\ n < 56 THEN NoItem
                   ELSE IF last > lim THEN NoItem
                   ELSE IF kind = "b" /\ n = 1 /\ e[first] < 128 THEN NoItem
                   ELSE IF kind = "b"
                   THEN [ok |-> TRUE,
                         item |-> [k |-> "b", v |-> SubSeq(e, first, last)],
                         next |-> last + 1]
                   ELSE LET inner == decode_joined(e, first, last)
                        IN  IF inner.ok
                            THEN [ok |-> TRUE,
                                  item |-> [k |-> "l", v |-> inner.items],
                                  next |-> last + 1]
                            ELSE NoItem

\* The items that fill e from index p to index lim exactly.
decode_joined(e, p, lim) ==
    IF p > lim THEN [ok |-> TRUE, items |-> <<>>]
    ELSE LET head == decode_item(e, p, lim)
         IN  IF ~head.ok THEN NoItem
             ELSE LET rest == decode_joined(e, head.next, lim)
                  IN  IF rest.ok
                      THEN [ok |-> TRUE, items |-> <<head.item>> \o rest.items]
                      ELSE NoItem

\* rlp.decode: the single item that fills the input.
rlp_decode(encoded_data) ==
    LET d == decode_item(encoded_data, 1, Len(encoded_data))
    IN  IF d.ok /\ d.next = Len(encoded_data) + 1 THEN d ELSE NoItem

is_bytes(it, n) == it.k = "b" /\ Len(it.v) = n

\* An unsigned integer of at most width bytes, without leading zero.
is_uint(it, width) ==
    it.k = "b" /\ Len(it.v) <= width /\ (it.v # <<>> => it.v[1] # 0)

is_bytes_tuple(it, n) ==
    it.k = "l" /\ \A i \in DOMAIN it.v : is_bytes(it.v[i], n)

is_access(it) ==
    /\ it.k = "l"
    /\ Len(it.v) = 2
    /\ is_bytes(it.v[1], 20)
    /\ is_bytes_tuple(it.v[2], 32)

is_authorization(it) ==
    /\ it.k = "l"
    /\ Len(it.v) = 6
    /\ is_uint(it.v[1], 32)
    /\ is_bytes(it.v[2], 20)
    /\ is_uint(it.v[3], 8)
    /\ is_uint(it.v[4], 1)
    /\ is_uint(it.v[5], 32)
    /\ is_uint(it.v[6], 32)

\* Whether a decoded item is a value of the field's type.
is_field(type, it) ==
    CASE type = "Uint" -> is_uint(it, Len(it.v))
      [] type \in {"U64", "U64w"} -> is_uint(it, 8)
      [] type \in {"U256", "U256w"} -> is_uint(it, 32)
      [] type = "To" -> is_bytes(it, 0) \/ is_bytes(it, 20)
      [] type = "Address" -> is_bytes(it, 20)
      [] type = "Bytes" -> it.k = "b"
      [] type = "AccessList" ->
           it.k = "l" /\ \A i \in DOMAIN it.v : is_access(it.v[i])
      [] type = "Hashes" -> is_bytes_tuple(it, 32)
      [] type = "Authorizations" ->
           it.k = "l" /\ \A i \in DOMAIN it.v : is_authorization(it.v[i])

to_bytes_tuple(it) == [i \in DOMAIN it.v |-> it.v[i].v]

to_access(it) == Access(it.v[1].v, to_bytes_tuple(it.v[2]))

to_authorization(it) ==
    Authorization(BigToInt(it.v[1].v), it.v[2].v, BigToInt(it.v[3].v),
                  BigToInt(it.v[4].v), it.v[5].v, it.v[6].v)

\* The value of a field from its decoded item.
to_field(type, it) ==
    CASE type \in {"Uint", "U64", "U256"} -> BigToInt(it.v)
      [] type \in {"U64w", "U256w", "To", "Address", "Bytes"} -> it.v
      [] type = "AccessList" -> [i \in DOMAIN it.v |-> to_access(it.v[i])]
      [] type = "Hashes" -> to_bytes_tuple(it)
      [] type = "Authorizations" ->
           [i \in DOMAIN it.v |-> to_authorization(it.v[i])]

\* rlp.decode_to(cls, encoded): the record of class cls whose fields are the
\* items of the decoded list, in declaration order; DecodingError when the
\* input is not one list of as many items of the fields' types.
rlp_decode_to(cls, encoded_data) ==
    LET d == rlp_decode(encoded_data)
        fields == Fields(cls)
        names == {fields[i][1] : i \in DOMAIN fields}
        at(name) == CHOOSE i \in DOMAIN fields : fields[i][1] = name
    IN  IF ~d.ok THEN Raise("DecodingError", "rlp")
        ELSE IF d.item.k # "l" \/ Len(d.item.v) # Len(fields)
        THEN Raise("DecodingError", "fields")
        ELSE IF \E i \in DOMAIN fields : ~is_field(fields[i][2], d.item.v[i])
        THEN Raise("DecodingError", "type")
        ELSE Return([name \in names \cup {"type"} |->
                        IF name = "type" THEN cls
                        ELSE to_field(fields[at(name)][2],
                                      d.item.v[at(name)])])

(***************************************************************************)
(* The envelope codec.  What encode_transaction returns and                *)
(* decode_transaction accepts is a legacy record or a byte string          *)
(* [type |-> "Bytes", bytes |-> ...].                                      *)
(***************************************************************************)
Bytes(b) == [type |-> "Bytes", bytes |-> b]

\* Mutant: the blob transaction is written under the tag of set-code.
encode_transaction_blob_tag(t) ==
    CASE t.type = "LegacyTransaction" -> Return(t)
      [] t.type = "AccessListTransaction" ->
           Return(Bytes(<<1>> \o rlp_encode(t)))
      [] t.type = "FeeMarketTransaction" ->
           Return(Bytes(<<2>> \o rlp_encode(t)))
      [] t.type = "BlobTransaction" ->
           Return(Bytes(<<4>> \o rlp_encode(t)))
      [] t.type = "SetCodeTransaction" ->
           Return(Bytes(<<4>> \o rlp_encode(t)))
      [] OTHER -> Raise("Exception", "Unable to encode transaction")

encode_transaction(t) ==
    CASE t.type = "LegacyTransaction" -> Return(t)
      [] t.type = "AccessListTransaction" ->
           Return(Bytes(<<1>> \o rlp_encode(t)))
      [] t.type = "FeeMarketTransaction" ->
           Return(Bytes(<<2>> \o rlp_encode(t)))
      [] t.type = "BlobTransaction" ->
           Return(Bytes(<<3>> \o rlp_encode(t)))
      [] t.type = "SetCodeTransaction" ->
           Return(Bytes(<<4>> \o rlp_encode(t)))
      [] OTHER -> Raise("Exception", "Unable to encode transaction")

\* Mutant: an unknown tag is read as a set-code transaction.
decode_transaction_no_reject(t) ==
    IF t.type = "Bytes"
    THEN IF t.bytes = <<>> THEN Raise("IndexError", "index out of range")
         ELSE IF t.bytes[1] = 1
         THEN rlp_decode_to("AccessListTransaction", Tail(t.bytes))
         ELSE IF t.bytes[1] = 2
         THEN rlp_decode_to("FeeMarketTransaction", Tail(t.bytes))
         ELSE IF t.bytes[1] = 3
         THEN rlp_decode_to("BlobTransaction", Tail(t.bytes))
         ELSE rlp_decode_to("SetCodeTransaction", Tail(t.bytes))
    ELSE Return(t)

decode_transaction(t) ==
    IF t.type = "Bytes"
    THEN IF t.bytes = <<>> THEN Raise("IndexError", "index out of range")
         ELSE IF t.bytes[1] = 1
         THEN rlp_decode_to("AccessListTransaction", Tail(t.bytes))
         ELSE IF t.bytes[1] = 2
         THEN rlp_decode_to("FeeMarketTransaction", Tail(t.bytes))
         ELSE IF t.bytes[1] = 3
         THEN rlp_decode_to("BlobTransaction", Tail(t.bytes))
         ELSE IF t.bytes[1] = 4
         THEN rlp_decode_to("SetCodeTransaction", Tail(t.bytes))
         ELSE Raise("TransactionTypeError", t.bytes[1])
    ELSE Return(t)

(***************************************************************************)
(* Arithmetic modulo the field prime, for the curve membership test of     *)
(* secp256k1_recover.                                                      *)
(***************************************************************************)
\* The field prime 2^256 - 2^32 - 977.
SECP256K1P ==
    <<255, 255, 255, 255, 255, 255, 255, 255,
      255, 255, 255, 255, 255, 255, 255, 255,
      255, 255, 255, 255, 255, 255, 255, 255,
      255, 255, 255, 254, 255, 255, 252, 47>>

\* The curve is y^2 = x^3 + 7.
SECP256K1B == <<7>>

\* Schoolbook addition with carry, of bytes i..j of two strings of one
\* length, the lower half of the run first.
RECURSIVE AddDigits(_, _, _, _, _)
AddDigits(a, b, i, j, carry) ==
    IF i > j THEN [bytes |-> <<>>, out |-> carry]
    ELSE IF i = j
    THEN IF a[i] + b[i] + carry >= 256
         THEN [bytes |-> <<a[i] + b[i] + carry - 256>>, out |-> 1]
         ELSE [bytes |-> <<a[i] + b[i] + carry>>, out |-> 0]
    ELSE LET mid == (i + j) \div 2
             lower == AddDigits(a, b, mid + 1, j, carry)
         IN  IF lower.out = 1
             THEN join_runs(AddDigits(a, b, i, mid, 1), lower)
             ELSE join_runs(AddDigits(a, b, i, mid, 0), lower)

BigAdd(a, b) ==
    LET n == Max(Len(a), Len(b))
        sum == AddDigits(Fill(0, n - Len(a)) \o a, Fill(0, n - Len(b)) \o b,
                         1, n, 0)
    IN  Strip(<<sum.out>> \o sum.bytes)

\* x mod SECP256K1P for x < 2 * SECP256K1P.
reduce_once(x) == IF BigLess(x, SECP256K1P) THEN x ELSE BigSub(x, SECP256K1P)

\* Bit i of b, counted from the most significant bit of its first byte.
bit(b, i) == (b[(i - 1) \div 8 + 1] \div (2 ^ (7 - ((i - 1) % 8)))) % 2

\* One step of double and add, for bit st.i of b: st.acc becomes
\* (2 * st.acc + a * bit) mod SECP256K1P.
mul_step(a, b, st) ==
    IF st.i > 8 * Len(b) THEN st
    ELSE LET doubled == reduce_once(BigAdd(st.acc, st.acc))
         IN  [acc |-> IF bit(b, st.i) = 1 THEN reduce_once(BigAdd(doubled, a))
                      ELSE doubled,
              i |-> st.i + 1]

\* 2^k steps, or fewer when the bits of b are used up.
RECURSIVE mul_steps(_, _, _, _)
mul_steps(a, b, st, k) ==
    IF k = 0 THEN mul_step(a, b, st)
    ELSE LET half == mul_steps(a, b, st, k - 1)
         IN  IF half.i > 8 * Len(b) THEN half
             ELSE mul_steps(a, b, half, k - 1)

\* (a * b) mod SECP256K1P, for a < SECP256K1P and b of 32 bytes at most,
\* whose 256 bits take 2^8 steps.
mul_mod_p(a, b) ==
    IF a = <<>> \/ b = <<>> THEN <<>>
    ELSE mul_steps(a, b, [acc |-> <<>>, i |-> 1], 8).acc

\* a mod m for m = 2, 4 or 8, from the last byte.
low_bits(a, m) == IF a = <<>> THEN 0 ELSE a[Len(a)] % m

\* One step of the binary computation of the Jacobi symbol (a / n), n odd:
\* the symbol sought is t times the symbol of the pair returned.
\*   a even     : (a / n) = (2 / n) * (a div 2 / n), and (2 / n) = -1
\*                exactly when n mod 8 is 3 or 5;
\*   a odd < n  : (a / n) = (n / a) = (n - a / a), negated when a and n
\*                are both 3 mod 4 (quadratic reciprocity);
\*   a odd >= n : (a / n) = (a - n / n).
jacobi_step(st) ==
    IF st.a = <<>> THEN st
    ELSE IF low_bits(st.a, 2) = 0
    THEN [a |-> BigHalf(st.a), n |-> st.n,
          t |-> IF low_bits(st.n, 8) \in {3, 5} THEN 0 - st.t ELSE st.t]
    ELSE IF BigLess(st.a, st.n)
    THEN [a |-> BigSub(st.n, st.a), n |-> st.a,
          t |-> IF low_bits(st.a, 4) = 3 /\ low_bits(st.n, 4) = 3
                THEN 0 - st.t ELSE st.t]
    ELSE [a |-> BigSub(st.a, st.n), n |-> st.n, t |-> st.t]

\* 2^k steps, or fewer when a reaches 0.
RECURSIVE jacobi_steps(_, _)
jacobi_steps(st, k) ==
    IF k = 0 THEN jacobi_step(st)
    ELSE LET half == jacobi_steps(st, k - 1)
         IN  IF half.a = <<>> THEN half ELSE jacobi_steps(half, k - 1)

\* The Legendre symbol of a < SECP256K1P modulo the prime: 1 when a is a non-zero square,
\* -1 when it is not a square, 0 when a is 0.  By Euler's criterion it is
\* pow(a, (SECP256K1P - 1) // 2, SECP256K1P), with -1 for SECP256K1P - 1.
\* Two steps take at least one bit off a and n together, which have 512
\* bits at most, so that 2^11 steps reach a = 0.
legendre(a) ==
    IF a = <<>> THEN 0
    ELSE LET end == jacobi_steps([a |-> a, n |-> SECP256K1P, t |-> 1], 11)
         IN  IF end.n = <<1>> THEN end.t ELSE 0

\* "is_square = pow(pow(r, 3, P) + B, (P - 1) // 2, P)", compared with 1:
\* whether r is the x-coordinate of a point of the curve.
is_square(r) ==
    legendre(reduce_once(BigAdd(mul_mod_p(mul_mod_p(r, r), r),
                                SECP256K1B))) = 1

(***************************************************************************)
(* The crypto collaborators.  A hash is the term keccak256(preimage), and  *)
(* a public key the term of the four arguments it was recovered from: the  *)
(* same arguments give the same key.  (Different arguments may give one    *)
(* key in the code; no property below rests on two keys being different.)  *)
(*                                                                         *)
(* secp256k1_recover raises InvalidSignatureError when r is not the        *)
(* x-coordinate of a point of the curve.  Otherwise the library recovers   *)
(* the point r^-1 (s R - z G), for R the point of x-coordinate r and       *)
(* z the hash, and refuses when it is the point at infinity; its           *)
(* ValueError leaves as an InvalidSignatureError without a message.        *)
(* Whether it is depends on the value of the hash, which the term does     *)
(* not give: the operators take the set, infinity, of the arguments for    *)
(* which it is.  The variable at_infinity holds it for the arguments asked *)
(* so far, settled either way when secp256k1_recover is first called with  *)
(* them and kept from then on.                                             *)
(***************************************************************************)
keccak256(buffer) == [keccak256 |-> buffer]

\* The r values of the signatures that the specifications below draw from:
\* 0, 1, N - 1, N.
SignatureRs == {<<>>, <<1>>, BigSub(SECP256K1N, <<1>>), SECP256K1N}

\* The membership test, computed once for those.
XCoordinates == {r \in SignatureRs : is_square(r)}

is_x_coordinate(r) ==
    IF r \in SignatureRs THEN r \in XCoordinates ELSE is_square(r)

secp256k1_recover(r, s, v, msg_hash, infinity) ==
    IF ~is_x_coordinate(r)
    THEN Raise("InvalidSignatureError",
               "r is not the x-coordinate of a point on the secp256k1 curve")
    ELSE IF [r |-> r, s |-> s, v |-> v, msg_hash |-> msg_hash] \in infinity
    THEN Raise("InvalidSignatureError", "")
    ELSE Return([r |-> r, s |-> s, v |-> v, msg_hash |-> msg_hash])

(***************************************************************************)
(* Signing hashes.                                                         *)
(***************************************************************************)
signing_hash_pre155(t) ==
    keccak256(encode_sequence(<<encode_bytes(t.nonce),
        encode_uint(t.gas_price), encode_uint(t.gas), encode_bytes(t.to),
        encode_uint(t.value), encode_bytes(t.data)>>))

signing_hash_155(t, cid) ==
    keccak256(encode_sequence(<<encode_bytes(t.nonce),
        encode_uint(t.gas_price), encode_uint(t.gas), encode_bytes(t.to),
        encode_uint(t.value), encode_bytes(t.data),
        encode_uint(cid), encode_uint(0), encode_uint(0)>>))

signing_hash_2930(t) ==
    keccak256(<<1>> \o encode_sequence(<<encode_uint(t.chain_id),
        encode_bytes(t.nonce), encode_uint(t.gas_price), encode_uint(t.gas),
        encode_bytes(t.to), encode_uint(t.value), encode_bytes(t.data),
        encode_access_list(t.access_list)>>))

signing_hash_1559(t) ==
    keccak256(<<2>> \o encode_sequence(<<encode_uint(t.chain_id),
        encode_bytes(t.nonce), encode_uint(t.max_priority_fee_per_gas),
        encode_uint(t.max_fee_per_gas), encode_uint(t.gas),
        encode_bytes(t.to), encode_uint(t.value), encode_bytes(t.data),
        encode_access_list(t.access_list)>>))

signing_hash_4844(t) ==
    keccak256(<<3>> \o encode_sequence(<<encode_uint(t.chain_id),
        encode_bytes(t.nonce), encode_uint(t.max_priority_fee_per_gas),
        encode_uint(t.max_fee_per_gas), encode_uint(t.gas),
        encode_bytes(t.to), encode_uint(t.value), encode_bytes(t.data),
        encode_access_list(t.access_list),
        encode_uint(t.max_fee_per_blob_gas),
        encode_bytes_tuple(t.blob_versioned_hashes)>>))

signing_hash_7702(t) ==
    keccak256(<<4>> \o encode_sequence(<<encode_uint(t.chain_id),
        encode_bytes(t.nonce), encode_uint(t.max_priority_fee_per_gas),
        encode_uint(t.max_fee_per_gas), encode_uint(t.gas),
        encode_bytes(t.to), encode_uint(t.value), encode_bytes(t.data),
        encode_access_list(t.access_list),
        encode_authorizations(t.authorizations)>>))

(***************************************************************************)
(* Sender recovery.  The value returned is Address(keccak256(public_key)   *)
(* [12:32]) for the public key recovered from (r, s, recovery id, hash).   *)
(* Each operator gives the outcome of the code it models together with     *)
(* the calls of secp256k1_recover that the code made, as the sequence of   *)
(* their arguments.                                                        *)
(***************************************************************************)
Address(public_key) == [sender_of |-> public_key]

\* "public_key = secp256k1_recover(r, s, v, msg_hash)" and then
\* "return Address(keccak256(public_key)[12:32])"; an exception of
\* secp256k1_recover is not caught.
recover_address(r, s, v, msg_hash, infinity) ==
    LET public_key == secp256k1_recover(r, s, v, msg_hash, infinity)
    IN  [outcome |-> IF public_key.kind = "raise" THEN public_key
                     ELSE Return(Address(public_key.value)),
         calls |-> <<[r |-> r, s |-> s, v |-> v, msg_hash |-> msg_hash]>>]

\* An InvalidSignatureError raised by recover_sender itself, before any
\* call of secp256k1_recover.
refuse(message) ==
    [outcome |-> Raise("InvalidSignatureError", message), calls |-> <<>>]

\* Mutant: y_parity goes to the curve recovery unchecked.
recover_typed_unchecked(t, msg_hash, infinity) ==
    recover_address(t.r, t.s, t.y_parity, msg_hash, infinity)

\* The y_parity check and the recovery, the same in the branches of the
\* four typed variants.
recover_typed(t, msg_hash, infinity) ==
    IF t.y_parity \notin {0, 1}
    THEN refuse("bad y_parity")
    ELSE recover_address(t.r, t.s, t.y_parity, msg_hash, infinity)

\* Mutant: the upper bound on s is the group order, not half of it.
bad_s_full_range(s) == ~BigLess(<<>>, s) \/ ~BigLess(s, SECP256K1N)

\* "U256(0) >= r or r >= SECP256K1N"
bad_r(r) == ~BigLess(<<>>, r) \/ ~BigLess(r, SECP256K1N)

\* "U256(0) >= s or s > SECP256K1N // U256(2)"
bad_s(s) == ~BigLess(<<>>, s) \/ BigLess(BigHalf(SECP256K1N), s)

\* Mutant: the chain id is not doubled.
recover_legacy_undoubled(cid, t, infinity) ==
    IF t.v = 27 \/ t.v = 28
    THEN recover_address(t.r, t.s, t.v - 27, signing_hash_pre155(t),
                         infinity)
    ELSE IF t.v # 35 + cid /\ t.v # 36 + cid
         THEN refuse("bad v")
         ELSE recover_address(t.r, t.s, t.v - 35 - cid,
                              signing_hash_155(t, cid), infinity)

\* Mutant: v = 27 and v = 28 are hashed with the chain id too.
recover_legacy_always_155(cid, t, infinity) ==
    IF t.v = 27 \/ t.v = 28
    THEN recover_address(t.r, t.s, t.v - 27, signing_hash_155(t, cid),
                         infinity)
    ELSE LET chain_id_x2 == cid * 2
         IN  IF t.v # 35 + chain_id_x2 /\ t.v # 36 + chain_id_x2
             THEN refuse("bad v")
             ELSE recover_address(t.r, t.s, t.v - 35 - chain_id_x2,
                                  signing_hash_155(t, cid), infinity)

\* The LegacyTransaction branch.
recover_legacy(cid, t, infinity) ==
    IF t.v = 27 \/ t.v = 28
    THEN recover_address(t.r, t.s, t.v - 27, signing_hash_pre155(t),
                         infinity)
    ELSE LET chain_id_x2 == cid * 2
         IN  IF t.v # 35 + chain_id_x2 /\ t.v # 36 + chain_id_x2
             THEN refuse("bad v")
             ELSE recover_address(t.r, t.s, t.v - 35 - chain_id_x2,
                                  signing_hash_155(t, cid), infinity)

recover_sender(cid, t, infinity) ==
    IF bad_r(t.r)
    THEN refuse("bad r")
    ELSE IF bad_s(t.s)
    THEN refuse("bad s")
    ELSE CASE t.type = "LegacyTransaction" ->
                recover_legacy(cid, t, infinity)
           [] t.type = "AccessListTransaction" ->
                recover_typed(t, signing_hash_2930(t), infinity)
           [] t.type = "FeeMarketTransaction" ->
                recover_typed(t, signing_hash_1559(t), infinity)
           [] t.type = "BlobTransaction" ->
                recover_typed(t, signing_hash_4844(t), infinity)
           [] t.type = "SetCodeTransaction" ->
                recover_typed(t, signing_hash_7702(t), infinity)

(***************************************************************************)
(* Inputs.                                                                 *)
(***************************************************************************)
MaxDataLen == 2
MaxAccess == 2
MaxAuth == 1

Addr(b) == Fill(b, 20)

Key(b) == Fill(b, 32)

\* All sequences over S of length at most n.
RECURSIVE SeqsUpTo(_, _)
SeqsUpTo(S, n) ==
    IF n = 0 THEN {<<>>}
    ELSE LET shorter == SeqsUpTo(S, n - 1)
         IN  shorter \cup {Append(q, x) : q \in shorter, x \in S}

DataBytes == {0, 255}

\* Short calldata, and one value ending on a 32-byte word boundary.
SmallData == SeqsUpTo(DataBytes, MaxDataLen) \cup {Fill(1, 32)}

\* Init code at the size limit and one byte above it.
BigData == {Fill(0, 2 * MAX_CODE_SIZE), Fill(255, 2 * MAX_CODE_SIZE + 1)}

AccessEntries == {Access(Addr(17), <<>>), Access(Addr(34), <<Key(1), Key(1)>>)}

AccessLists == SeqsUpTo(AccessEntries, MaxAccess)

\* What ExtendAccessList appends: one entry, and a list with a duplicate.
Extensions ==
    {<<Access(Addr(17), <<Key(2)>>)>>,
     <<Access(Addr(34), <<Key(1), Key(1)>>), Access(Addr(34), <<Key(1), Key(1)>>)>>}

AuthLists == SeqsUpTo({Authorization(1, Addr(51), 0, 1, <<7>>, <<9>>)}, MaxAuth)

\* 0, 2^64 - 2, 2^64 - 1 and 2^64.
Nonces ==
    {<<>>, BigSub(U64_MAX_VALUE, <<1>>), U64_MAX_VALUE, <<1>> \o Fill(0, 8)}

GasValues == {20999, 21000, 21040, 53000, 2000000}

Tos == {Bytes0, Addr(68)}

\* Every variant over the given calldata, access lists, authorization
\* lists, nonces and gas limits, with a fixed signature.  The nonce of a
\* SetCodeTransaction is a U64.
GasTxs(datas, als, auths, nonces, gases) ==
    {LegacyTransaction(n, 1, g, to, 0, d, 27, <<1>>, <<1>>) :
        n \in nonces, g \in gases, to \in Tos, d \in datas}
    \cup
    {AccessListTransaction(1, n, 1, g, to, 0, d, al, 0, <<1>>, <<1>>) :
        n \in nonces, g \in gases, to \in Tos, d \in datas, al \in als}
    \cup
    {FeeMarketTransaction(1, n, 1, 1, g, to, 0, d, al, 0, <<1>>, <<1>>) :
        n \in nonces, g \in gases, to \in Tos, d \in datas, al \in als}
    \cup
    {BlobTransaction(1, n, 1, 1, g, Addr(68), 0, d, al, 1, <<Key(1)>>,
                     0, <<1>>, <<1>>) :
        n \in nonces, g \in gases, d \in datas, al \in als}
    \cup
    {SetCodeTransaction(1, n, 1, 1, g, Addr(68), 0, d, al, au,
                        0, <<1>>, <<1>>) :
        n \in {x \in nonces : Len(x) <= 8}, g \in gases, d \in datas,
        al \in als, au \in auths}

NoPrev == [how |-> "none"]

(***************************************************************************)
(* The gas calculator as a state machine: a caller holds a transaction,    *)
(* asks for its cost or validates it, and may build a second transaction   *)
(* from it (one more calldata byte, a longer access list) and ask again.   *)
(***************************************************************************)
Init ==
    /\ tx \in GasTxs(SmallData, AccessLists, AuthLists, Nonces, GasValues)
              \cup GasTxs(BigData, {<<>>}, {<<>>}, {<<>>}, {2000000})
    /\ chain_id = 1
    /\ op = "start"
    /\ result = None
    /\ prev = NoPrev
    /\ wire = None
    /\ calls = <<>>
    /\ asked = {}
    /\ at_infinity = {}

CalculateIntrinsicCost ==
    /\ op \in {"start", "derived"}
    /\ result' = Return(calculate_intrinsic_cost(tx))
    /\ op' = "calculate_intrinsic_cost"
    /\ UNCHANGED <<tx, chain_id, prev, wire, calls, asked, at_infinity>>

ValidateTransaction ==
    /\ op \in {"start", "derived"}
    /\ result' = validate_transaction(tx)
    /\ op' = "validate_transaction"
    /\ UNCHANGED <<tx, chain_id, prev, wire, calls, asked, at_infinity>>

\* The caller builds the transaction with one more byte of calldata.
AppendData(b) ==
    /\ op = "calculate_intrinsic_cost"
    /\ prev = NoPrev
    /\ tx' = [tx EXCEPT !.data = Append(@, b)]
    /\ prev' = [how |-> "append", arg |-> b, result |-> result]
    /\ result' = None
    /\ op' = "derived"
    /\ UNCHANGED <<chain_id, wire, calls, asked, at_infinity>>

\* The caller builds the transaction with access list A ++ B.
ExtendAccessList(B) ==
    /\ op = "calculate_intrinsic_cost"
    /\ prev = NoPrev
    /\ HasAccessList(tx)
    /\ tx' = [tx EXCEPT !.access_list = @ \o B]
    /\ prev' = [how |-> "extend", arg |-> B, result |-> result]
    /\ result' = None
    /\ op' = "derived"
    /\ UNCHANGED <<chain_id, wire, calls, asked, at_infinity>>

Next ==
    \/ CalculateIntrinsicCost
    \/ ValidateTransaction
    \/ \E b \in DataBytes : AppendData(b)
    \/ \E B \in Extensions : ExtendAccessList(B)

Spec == Init /\ [][Next]_vars

(***************************************************************************)
(* Sender recovery as a state machine: a caller holds a signed transaction *)
(* and the id of the executing chain and recovers the sender; it may then  *)
(* build the malleated twin of an accepted signature (s replaced by        *)
(* N - s, parity flipped), or move to another executing chain, and         *)
(* recover again.                                                          *)
(***************************************************************************)
MaxChainId == 2

ChainIds == 0..MaxChainId

\* 0, 1, N - 1, N: of the two in range, 1 is the x-coordinate of a point
\* of the curve and N - 1 is not.
RValues == SignatureRs

\* 0, 1, N // 2, N // 2 + 1, N - 1, N
SValues ==
    {<<>>, <<1>>, BigHalf(SECP256K1N),
     BigSub(SECP256K1N, BigHalf(SECP256K1N)),
     BigSub(SECP256K1N, <<1>>), SECP256K1N}

VValues == 26..(37 + 2 * MaxChainId)

YParities == {0, 1, 2}

SigTxs ==
    {LegacyTransaction(<<>>, 1, 21000, Addr(68), 0, <<>>, v, r, s) :
        v \in VValues, r \in RValues, s \in SValues}
    \cup
    {AccessListTransaction(c, <<>>, 1, 21000, Addr(68), 0, <<>>, <<>>,
                           y, r, s) :
        c \in ChainIds, y \in YParities, r \in RValues, s \in SValues}
    \cup
    {FeeMarketTransaction(c, <<>>, 1, 1, 21000, Addr(68), 0, <<>>, <<>>,
                          y, r, s) :
        c \in ChainIds, y \in YParities, r \in RValues, s \in SValues}
    \cup
    {BlobTransaction(c, <<>>, 1, 1, 21000, Addr(68), 0, <<>>, <<>>, 1,
                     <<Key(1)>>, y, r, s) :
        c \in ChainIds, y \in YParities, r \in RValues, s \in SValues}
    \cup
    {SetCodeTransaction(c, <<>>, 1, 1, 21000, Addr(68), 0, <<>>, <<>>,
                        <<Authorization(1, Addr(51), 0, 1, <<7>>, <<9>>)>>,
                        y, r, s) :
        c \in ChainIds, y \in YParities, r \in RValues, s \in SValues}

InitSig ==
    /\ tx \in SigTxs
    /\ chain_id \in ChainIds
    /\ op = "start"
    /\ result = None
    /\ prev = NoPrev
    /\ wire = None
    /\ calls = <<>>
    /\ asked = {}
    /\ at_infinity = {}

\* recover_sender runs.  For arguments that secp256k1_recover has not been
\* called with before, whether the point recovered is the point at
\* infinity is settled now, either way.
RecoverSender ==
    /\ op \in {"start", "derived"}
    /\ calls' = recover_sender(chain_id, tx, at_infinity).calls
    /\ asked' = asked \cup {calls'[i] : i \in DOMAIN calls'}
    /\ \E settled \in SUBSET {c \in asked' \ asked : is_x_coordinate(c.r)} :
         /\ at_infinity' = at_infinity \cup settled
         /\ result' = recover_sender(chain_id, tx,
                                     at_infinity \cup settled).outcome
    /\ op' = "recover_sender"
    /\ UNCHANGED <<tx, chain_id, prev, wire>>

\* The other parity: 27 <-> 28, 35 + 2c <-> 36 + 2c, 0 <-> 1.
FlipParity(t) ==
    IF t.type = "LegacyTransaction"
    THEN [t EXCEPT !.v = IF @ % 2 = 1 THEN @ + 1 ELSE @ - 1]
    ELSE [t EXCEPT !.y_parity = 1 - @]

\* The malleated twin of a signature whose components recover_sender
\* accepted, handing them to the curve recovery.
Malleate ==
    /\ op = "recover_sender"
    /\ prev = NoPrev
    /\ calls # <<>>
    /\ tx' = [FlipParity(tx) EXCEPT !.s = BigSub(SECP256K1N, @)]
    /\ prev' = [how |-> "malleate", arg |-> tx.s, result |-> result,
                calls |-> calls]
    /\ result' = None
    /\ calls' = <<>>
    /\ op' = "derived"
    /\ UNCHANGED <<chain_id, wire, asked, at_infinity>>

\* The same transaction presented on another executing chain.
ChangeChain(c) ==
    /\ op = "recover_sender"
    /\ prev = NoPrev
    /\ c # chain_id
    /\ chain_id' = c
    /\ prev' = [how |-> "chain", arg |-> chain_id, result |-> result,
                calls |-> calls]
    /\ result' = None
    /\ calls' = <<>>
    /\ op' = "derived"
    /\ UNCHANGED <<tx, wire, asked, at_infinity>>

NextSig ==
    \/ RecoverSender
    \/ Malleate
    \/ \E c \in ChainIds : ChangeChain(c)

SpecSig == InitSig /\ [][NextSig]_vars

(***************************************************************************)
(* The codec as a state machine: a caller encodes a transaction; the       *)
(* receiver decodes what arrives, which is what was sent, or the same      *)
(* bytes under another leading byte, or the bytes cut short.               *)
(***************************************************************************)
\* Leading bytes a receiver may see: the four tags, their neighbours 0 and
\* 5, the end of the reserved range, and RLP prefixes.
TagBytes == {0, 1, 2, 3, 4, 5, 127, 128, 248}

CodecTxs ==
    GasTxs(SmallData, AccessLists, AuthLists,
           {<<>>, BigSub(U64_MAX_VALUE, <<1>>)}, {21000})
    \cup {t \in SigTxs : t.r # <<>> /\ t.s \in {<<1>>, SECP256K1N}}

InitCodec ==
    /\ tx \in CodecTxs
    /\ chain_id = 1
    /\ op = "start"
    /\ result = None
    /\ prev = NoPrev
    /\ wire = None
    /\ calls = <<>>
    /\ asked = {}
    /\ at_infinity = {}

EncodeTransaction ==
    /\ op = "start"
    /\ result' = encode_transaction(tx)
    /\ wire' = result'.value
    /\ op' = "encode_transaction"
    /\ UNCHANGED <<tx, chain_id, prev, calls, asked, at_infinity>>

DecodeTransaction ==
    /\ op \in {"encode_transaction", "derived"}
    /\ result' = decode_transaction(wire)
    /\ op' = "decode_transaction"
    /\ UNCHANGED <<tx, chain_id, prev, wire, calls, asked, at_infinity>>

\* The envelope arrives under another leading byte.
Retag(b) ==
    /\ op = "encode_transaction"
    /\ wire.type = "Bytes"
    /\ b # wire.bytes[1]
    /\ wire' = Bytes(<<b>> \o Tail(wire.bytes))
    /\ prev' = [how |-> "retag", arg |-> b, result |-> result]
    /\ result' = None
    /\ op' = "derived"
    /\ UNCHANGED <<tx, chain_id, calls, asked, at_infinity>>

\* The envelope arrives without its last byte.
Truncate ==
    /\ op = "encode_transaction"
    /\ wire.type = "Bytes"
    /\ wire' = Bytes(SubSeq(wire.bytes, 1, Len(wire.bytes) - 1))
    /\ prev' = [how |-> "truncate", arg |-> 1, result |-> result]
    /\ result' = None
    /\ op' = "derived"
    /\ UNCHANGED <<tx, chain_id, calls, asked, at_infinity>>

NextCodec ==
    \/ EncodeTransaction
    \/ DecodeTransaction
    \/ \E b \in TagBytes : Retag(b)
    \/ Truncate

SpecCodec == InitCodec /\ [][NextCodec]_vars

(***************************************************************************)
(* Properties of the gas calculator.                                       *)
(***************************************************************************)
\* C1: validate_transaction(tx) returns exactly when max(intrinsic_gas,
\* calldata_floor_gas_cost) <= tx.gas, tx.nonce < 2^64 - 1, and a creation
\* carries at most 2 * MAX_CODE_SIZE bytes; it then returns the pair of
\* calculate_intrinsic_cost(tx); otherwise it raises InvalidTransaction.
C1_ValidateOutcome ==
    op = "validate_transaction" =>
        LET cost == calculate_intrinsic_cost(tx)
            gas_ok == cost[1] <= tx.gas /\ cost[2] <= tx.gas
            nonce_ok == tx.nonce # U64_MAX_VALUE /\ Len(tx.nonce) <= 8
            size_ok == tx.to = <<>> => Len(tx.data) <= 49152
        IN  IF gas_ok /\ nonce_ok /\ size_ok
            THEN result = Return(cost)
            ELSE result.kind = "raise" /\ result.exc = "InvalidTransaction"

\* A creation whose init code is exactly at the limit has been validated
\* and accepted.
C1_Witness ==
    /\ op = "validate_transaction"
    /\ result.kind = "return"
    /\ tx.to = <<>>
    /\ Len(tx.data) = 2 * MAX_CODE_SIZE

C2_EntrySum(access_list) ==
    LET RECURSIVE upto(_)
        upto(n) == IF n = 0 THEN 0
                   ELSE upto(n - 1) + 2400 + 1900 * Len(access_list[n].slots)
    IN  upto(Len(access_list))

\* C2: calculate_intrinsic_cost(tx) is (21000 + 4 * tokens + create_cost
\* + access_list_cost + auth_cost, 10 * tokens + 21000), tokens counting a
\* zero byte once and any other byte four times, every access entry billed
\* 2400 + 1900 per slot (duplicates included), legacy billed no access list.
C2_IntrinsicCostFormula ==
    op = "calculate_intrinsic_cost" =>
        LET zeros == Cardinality({i \in 1..Len(tx.data) : tx.data[i] = 0})
            tokens == zeros + 4 * (Len(tx.data) - zeros)
            create == IF tx.to = <<>>
                      THEN 32000 + init_code_cost(Len(tx.data)) ELSE 0
            access == IF tx.type = "LegacyTransaction" THEN 0
                      ELSE C2_EntrySum(tx.access_list)
            auth == IF tx.type = "SetCodeTransaction"
                    THEN PER_EMPTY_ACCOUNT_COST * Len(tx.authorizations) ELSE 0
        IN  result = Return(<<21000 + 4 * tokens + create + access + auth,
                              10 * tokens + 21000>>)

\* The cost of a transaction listing the same entry twice has been computed.
C2_Witness ==
    /\ op = "calculate_intrinsic_cost"
    /\ tx.type # "LegacyTransaction"
    /\ Len(tx.access_list) = 2
    /\ tx.access_list[1] = tx.access_list[2]
    /\ Len(tx.access_list[1].slots) = 2
    /\ tx.data # <<>>

\* C8: the intrinsic gas of a transaction with one byte appended to its
\* calldata is strictly greater than that of the transaction.
C8_GasMonotoneInCalldata ==
    (op = "calculate_intrinsic_cost" /\ prev.how = "append") =>
        result.value[1] > prev.result.value[1]

\* A zero byte has been appended to the calldata of a creation and the
\* cost computed again.
C8_Witness ==
    /\ op = "calculate_intrinsic_cost"
    /\ prev.how = "append"
    /\ prev.arg = 0
    /\ tx.to = <<>>
    /\ Len(tx.data) = 33

\* C9: with access list A ++ B the intrinsic gas is that with A plus
\* 2400 + 1900 * len(slots) for every entry of B, and the floor is the same.
C9_AccessListLinear ==
    (op = "calculate_intrinsic_cost" /\ prev.how = "extend") =>
        /\ result.value[1] = prev.result.value[1] + C2_EntrySum(prev.arg)
        /\ result.value[2] = prev.result.value[2]

\* A non-empty access list has been extended by two entries and the cost
\* computed again.
C9_Witness ==
    /\ op = "calculate_intrinsic_cost"
    /\ prev.how = "extend"
    /\ Len(prev.arg) = 2
    /\ Len(tx.access_list) > 2

(***************************************************************************)
(* Properties of sender recovery.                                          *)
(***************************************************************************)
\* SECP256K1N div 2 =
\* 0x7FFFFFFFFFFFFFFFFFFFFFFFFFFFFFFF5D576E7357A4501DDFE92F46681B20A0
HalfN ==
    <<127, 255, 255, 255, 255, 255, 255, 255,
      255, 255, 255, 255, 255, 255, 255, 255,
      93, 87, 110, 115, 87, 164, 80, 29,
      223, 233, 47, 70, 104, 27, 32, 160>>

SigInRange(t) ==
    /\ BigLess(<<>>, t.r) /\ BigLess(t.r, SECP256K1N)
    /\ BigLess(<<>>, t.s) /\ BigLeq(t.s, HalfN)

\* The exceptions that leave secp256k1_recover: r is not on the curve, or
\* the library refuses the point at infinity.
RecoveryFailed ==
    {Raise("InvalidSignatureError",
           "r is not the x-coordinate of a point on the secp256k1 curve"),
     Raise("InvalidSignatureError", "")}

\* C3: recover_sender hands (r, s, recovery id) to the curve recovery only
\* when 0 < r < N, 0 < s <= N div 2 and the recovery id is 0 or 1, and then
\* once; in every other case it raises InvalidSignatureError, recovers
\* nothing and returns no address.
C3_RecoveryOnlyWhenValid ==
    op = "recover_sender" =>
        LET parity_ok ==
                IF tx.type = "LegacyTransaction"
                THEN tx.v \in {27, 28, 35 + 2 * chain_id, 36 + 2 * chain_id}
                ELSE tx.y_parity \in {0, 1}
        IN  IF SigInRange(tx) /\ parity_ok
            THEN /\ Len(calls) = 1
                 /\ calls[1].r = tx.r
                 /\ calls[1].s = tx.s
                 /\ calls[1].v \in {0, 1}
                 /\ \/ result = Return(Address(calls[1]))
                    \/ result \in RecoveryFailed
            ELSE /\ calls = <<>>
                 /\ result.kind = "raise"
                 /\ result.exc = "InvalidSignatureError"
                 /\ result \notin RecoveryFailed

\* A typed transaction with in-range r and s and y_parity = 2 has been
\* refused without a call of the curve recovery.
C3_Witness ==
    /\ op = "recover_sender"
    /\ tx.type = "BlobTransaction"
    /\ SigInRange(tx)
    /\ tx.s = HalfN
    /\ tx.y_parity = 2
    /\ result.kind = "raise"
    /\ calls = <<>>

\* C4: for a legacy transaction with in-range r and s, v = 27 or 28 takes
\* the pre-EIP-155 hash with recovery id v - 27; otherwise v must be
\* 35 + 2 * chain_id or 36 + 2 * chain_id and takes the EIP-155 hash over
\* chain_id with recovery id v - 35 - 2 * chain_id; any other v is
\* "bad v".  With chain_id = 1: 37 gives 0, 38 gives 1, 36 is refused.
C4_LegacyV ==
    (op = "recover_sender" /\ tx.type = "LegacyTransaction" /\ SigInRange(tx))
    =>
        /\ IF tx.v \in {27, 28}
           THEN calls = <<[r |-> tx.r, s |-> tx.s, v |-> tx.v - 27,
                           msg_hash |-> signing_hash_pre155(tx)]>>
           ELSE IF tx.v \in {35 + 2 * chain_id, 36 + 2 * chain_id}
           THEN calls = <<[r |-> tx.r, s |-> tx.s,
                           v |-> tx.v - 35 - 2 * chain_id,
                           msg_hash |-> signing_hash_155(tx, chain_id)]>>
           ELSE calls = <<>> /\ result = Raise("InvalidSignatureError", "bad v")
        /\ calls # <<>> =>
               \/ result = Return(Address(calls[1]))
               \/ result \in RecoveryFailed
        /\ (chain_id = 1 /\ tx.v = 37) => (calls # <<>> /\ calls[1].v = 0)
        /\ (chain_id = 1 /\ tx.v = 38) => (calls # <<>> /\ calls[1].v = 1)
        /\ (chain_id = 1 /\ tx.v = 36) =>
               result = Raise("InvalidSignatureError", "bad v")

\* On chain 1 the sender of a legacy transaction with v = 38 has been
\* recovered with recovery id 1 and the hash over chain id 1.
C4_Witness ==
    /\ op = "recover_sender"
    /\ tx.type = "LegacyTransaction"
    /\ chain_id = 1
    /\ tx.v = 38
    /\ result.kind = "return"
    /\ result.value.sender_of.v = 1
    /\ result.value.sender_of.msg_hash = signing_hash_155(tx, 1)

\* C7: when recover_sender accepted (r, s, parity), it refuses the same
\* transaction with s replaced by N - s and the parity flipped, before any
\* curve recovery.
C7_LowSRejection ==
    (op = "recover_sender" /\ prev.how = "malleate" /\ prev.calls # <<>>)
    =>
        /\ result.kind = "raise"
        /\ result.exc = "InvalidSignatureError"
        /\ calls = <<>>

\* The sender of a transaction with the largest accepted s, N div 2, has
\* been recovered, and its twin has been refused.
C7_Witness ==
    /\ op = "recover_sender"
    /\ prev.how = "malleate"
    /\ prev.arg = HalfN
    /\ prev.result.kind = "return"
    /\ tx.s = BigSub(SECP256K1N, HalfN)
    /\ result.kind = "raise"

\* C10: for the typed variants, and for a legacy transaction with v = 27
\* or 28, recover_sender gives the same outcome, from the same call of the
\* curve recovery, on every executing chain.
C10_ChainIdIgnored ==
    (op = "recover_sender" /\ prev.how = "chain"
        /\ (tx.type = "LegacyTransaction" => tx.v \in {27, 28}))
    =>
        /\ result = prev.result
        /\ calls = prev.calls

\* The sender of a typed transaction signed for chain 2 has been recovered
\* on chain 1 and then on chain 0.
C10_Witness ==
    /\ op = "recover_sender"
    /\ prev.how = "chain"
    /\ prev.arg = 1
    /\ chain_id = 0
    /\ tx.type = "AccessListTransaction"
    /\ tx.chain_id = 2
    /\ result.kind = "return"

(***************************************************************************)
(* Properties of the codec.                                                *)
(***************************************************************************)
\* C5: decode_transaction returns a legacy record unchanged; a byte string
\* whose first byte is 1, 2, 3 or 4 is RLP-decoded, from its second byte
\* on, into the AccessList, FeeMarket, Blob or SetCode variant; any other
\* first byte b fails with TransactionTypeError(b).
C5_DecodeDispatch ==
    op = "decode_transaction" =>
        IF wire.type = "LegacyTransaction"
        THEN result = Return(wire)
        ELSE LET b == wire.bytes[1]
                 rest == SubSeq(wire.bytes, 2, Len(wire.bytes))
                 variant == <<"AccessListTransaction", "FeeMarketTransaction",
                              "BlobTransaction", "SetCodeTransaction">>
             IN  IF b \in 1..4
                 THEN /\ result = rlp_decode_to(variant[b], rest)
                      /\ result.kind = "return" =>
                             result.value.type = variant[b]
                 ELSE result = Raise("TransactionTypeError", b)

\* An envelope that was sent under tag 4 and arrived under tag 5 has been
\* refused with TransactionTypeError(5).
C5_Witness ==
    /\ op = "decode_transaction"
    /\ prev.how = "retag"
    /\ tx.type = "SetCodeTransaction"
    /\ wire.bytes[1] = 5
    /\ result = Raise("TransactionTypeError", 5)

\* C6: decode_transaction(encode_transaction(tx)) = tx for every variant,
\* and decoding selects the variant under the tag that encoding wrote.
C6_RoundTrip ==
    (op = "decode_transaction" /\ prev.how = "none") =>
        /\ result = Return(tx)
        /\ result.value.type = tx.type

\* A set-code transaction with a two-entry access list, an authorization
\* and calldata has gone through encoding and decoding.
C6_Witness ==
    /\ op = "decode_transaction"
    /\ prev.how = "none"
    /\ tx.type = "SetCodeTransaction"
    /\ Len(tx.access_list) = 2
    /\ Len(tx.authorizations) = 1
    /\ Len(tx.data) = 2
    /\ wire.type = "Bytes"
    /\ result.kind = "return"

====
